---- MODULE Spec2Model ----
(***************************************************************************)
(* Hot Chair Bot (src/bot.py): weekly office-attendance sign-ups kept in   *)
(* one JSON file, a confirm/cancel prompt for actions proposed by the      *)
(* language model, scheduled deficit notifications and a retention sweep.  *)
(*                                                                         *)
(* Text is modelled as a sequence of one-character strings, a timestamp    *)
(* as the number of days since 1970-01-01 in the bot's time zone.          *)
(***************************************************************************)
EXTENDS Integers, Sequences, FiniteSets, TLC

VARIABLES now, file, prompts, last, nops, inflight

vars == <<now, file, prompts, last, nops, inflight>>

(***************************************************************************)
(* Bounds of the model.                                                    *)
(***************************************************************************)
\* the clock is read every ClockStep days, MaxTicks times: with a step of 9 days
\* it shows a Monday, a Wednesday, a Friday, a Sunday and a Tuesday of
\* successive weeks, and passes the retention horizon
ClockStep == 9
MaxTicks == 4
\* at most this many updates (commands, messages, button presses) arrive
MaxOps == 2
\* at most this many confirmation prompts are shown
MaxPrompts == 2

(***************************************************************************)
(* Program constants.                                                      *)
(***************************************************************************)
MIN_PEOPLE == 2

DAYS_RU == <<"Pn", "Vt", "Sr", "Cht", "Pt">>

RetentionWeeks == 4

(***************************************************************************)
(* Text: characters, decimal digits, comparison, split and join.           *)
(***************************************************************************)
Digits == <<"0", "1", "2", "3", "4", "5", "6", "7", "8", "9">>

DigitSet == {Digits[i] : i \in 1..10}

DigitValOf == [c \in DigitSet |-> (CHOOSE i \in 1..10 : Digits[i] = c) - 1]

IsDigit(c) == c \in DigitSet

DigitVal(c) == DigitValOf[c]

\* code points of the characters that occur in keys and payloads
\* (',' = 44, '-' = 45, '0'..'9' = 48..57, ':' = 58, letters above)
Ord(c) ==
    IF c = "," THEN 44
    ELSE IF c = "-" THEN 45
    ELSE IF IsDigit(c) THEN 48 + DigitVal(c)
    ELSE IF c = ":" THEN 58
    ELSE 97

\* Python's str < str: lexicographic by code point, a proper prefix is smaller
RECURSIVE StrLess(_, _)
StrLess(a, b) ==
    IF b = <<>> THEN FALSE
    ELSE IF a = <<>> THEN TRUE
    ELSE IF Ord(Head(a)) < Ord(Head(b)) THEN TRUE
    ELSE IF Ord(Head(a)) > Ord(Head(b)) THEN FALSE
    ELSE StrLess(Tail(a), Tail(b))

\* str(n) for n >= 0
RECURSIVE IntToStr(_)
IntToStr(n) ==
    IF n < 10 THEN <<Digits[n + 1]>>
    ELSE IntToStr(n \div 10) \o <<Digits[(n % 10) + 1]>>

\* int(s) for a non-empty string of decimal digits
RECURSIVE StrToInt(_)
StrToInt(s) ==
    IF Len(s) = 1 THEN DigitVal(s[1])
    ELSE 10 * StrToInt(SubSeq(s, 1, Len(s) - 1)) + DigitVal(s[Len(s)])

\* s.isdigit(): non-empty and all decimal digits
IsDigitStr(s) == Len(s) > 0 /\ \A i \in 1..Len(s) : IsDigit(s[i])

\* s.split(sep) for a one-character separator
RECURSIVE Split(_, _)
Split(s, sep) ==
    IF \A i \in 1..Len(s) : s[i] # sep THEN <<s>>
    ELSE LET k == CHOOSE i \in 1..Len(s) :
                      s[i] = sep /\ \A j \in 1..(i - 1) : s[j] # sep
         IN  <<SubSeq(s, 1, k - 1)>> \o Split(SubSeq(s, k + 1, Len(s)), sep)

\* sep.join(parts)
RECURSIVE Join(_, _)
Join(parts, sep) ==
    IF parts = <<>> THEN <<>>
    ELSE IF Len(parts) = 1 THEN parts[1]
    ELSE parts[1] \o sep \o Join(Tail(parts), sep)

\* n formatted with at least w digits, zero padded (%d, %m, %Y of strftime)
ZeroPad(n, w) ==
    LET s == IntToStr(n)
    IN  [i \in 1..(w - Len(s)) |-> "0"] \o s

(***************************************************************************)
(* Calendar: a datetime is the day number since 1970-01-01 (a Thursday);   *)
(* the proleptic Gregorian calendar of Python's datetime.                  *)
(***************************************************************************)
\* datetime.weekday(): Monday = 0 .. Sunday = 6
weekday(dt) == (dt + 3) % 7

\* the calendar date <<year, month, day>> of a day number
CivilFromDays(dt) ==
    LET z == dt + 719468
        era == z \div 146097
        doe == z - era * 146097
        yoe == (doe - doe \div 1460 + doe \div 36524 - doe \div 146096) \div 365
        doy == doe - (365 * yoe + yoe \div 4 - yoe \div 100)
        mp == (5 * doy + 2) \div 153
        d == doy - (153 * mp + 2) \div 5 + 1
        m == IF mp < 10 THEN mp + 3 ELSE mp - 9
        y == yoe + era * 400 + (IF m <= 2 THEN 1 ELSE 0)
    IN  <<y, m, d>>

\* the day number of a calendar date
DaysFromCivil(year, m, d) ==
    LET y == IF m <= 2 THEN year - 1 ELSE year
        era == y \div 400
        yoe == y - era * 400
        doy == (153 * (IF m > 2 THEN m - 3 ELSE m + 9) + 2) \div 5 + d - 1
        doe == yoe * 365 + yoe \div 4 - yoe \div 100 + doy
    IN  era * 146097 + doe - 719468

\* dt.strftime("%Y-%m-%d")
strftime_Ymd(dt) ==
    LET c == CivilFromDays(dt)
    IN  ZeroPad(c[1], 4) \o <<"-">> \o ZeroPad(c[2], 2) \o <<"-">> \o ZeroPad(c[3], 2)

\* dt.strftime("%d.%m")
strftime_dm(dt) ==
    LET c == CivilFromDays(dt)
    IN  ZeroPad(c[3], 2) \o <<".">> \o ZeroPad(c[2], 2)

\* dt.strftime("%d.%m.%Y")
strftime_dmY(dt) ==
    LET c == CivilFromDays(dt)
    IN  ZeroPad(c[3], 2) \o <<".">> \o ZeroPad(c[2], 2) \o <<".">> \o ZeroPad(c[1], 4)

\* datetime.strptime(s, "%Y-%m-%d")
strptime_Ymd(s) ==
    LET p == Split(s, "-")
    IN  DaysFromCivil(StrToInt(p[1]), StrToInt(p[2]), StrToInt(p[3]))

\* the first day of the model's clock, a Monday
StartDay == DaysFromCivil(2025, 12, 1)

\* the days the model's clock and its week arithmetic can reach
CalendarDays == (StartDay - 70)..(StartDay + 140)

\* the conversions, tabulated once over CalendarDays
YmdOf == [dt \in CalendarDays |-> strftime_Ymd(dt)]

DmOf == [dt \in CalendarDays |-> strftime_dm(dt)]

DmYOf == [dt \in CalendarDays |-> strftime_dmY(dt)]

DayOfYmd == [s \in {YmdOf[dt] : dt \in CalendarDays} |-> strptime_Ymd(s)]

\* a week_key whose weeks begin on Sunday
week_key_from_sunday(dt) == YmdOf[dt - ((weekday(dt) + 1) % 7)]

\* (dt - timedelta(days=dt.weekday())).strftime("%Y-%m-%d")
week_key(dt) == YmdOf[dt - weekday(dt)]

\* a current_week_key that is the date of today, not of the week's Monday
current_week_key_of_today(today) == YmdOf[today]

current_week_key(today) == week_key(today)

next_week_key(today) == week_key(today + 7)

monday_of(wk) == DayOfYmd[wk]

(***************************************************************************)
(* Users and chats of the chat platform.                                   *)
(***************************************************************************)
Users ==
    { [id |-> 1, first_name |-> <<"A">>, last_name |-> <<>>, username |-> <<"a">>],
      [id |-> 2, first_name |-> <<"B">>, last_name |-> <<"L">>, username |-> <<>>] }

GroupChats == { [id |-> 100, type |-> "group"] }

\* the groups the bot is a member of
AllGroupChats == GroupChats \cup { [id |-> 200, type |-> "group"] }

PrivateChat(user) == [id |-> user.id, type |-> "private"]

\* the chats a user can write in: the private chat with the bot, and the groups
ChatsOf(user) == {PrivateChat(user)} \cup GroupChats

get_display_name(user) ==
    IF user.first_name # <<>> /\ user.last_name # <<>>
    THEN user.first_name \o <<" ">> \o user.last_name
    ELSE IF user.first_name # <<>> THEN user.first_name
    ELSE IF user.username # <<>> THEN user.username
    ELSE IntToStr(user.id)

(***************************************************************************)
(* The store: data.json.  A dict is a function; the order of its items is  *)
(* not modelled (items are visited in the order of their keys).            *)
(***************************************************************************)
EmptyData == [weeks |-> <<>>, group_chats |-> <<>>, names |-> <<>>]

NoFile == [exists |-> FALSE, content |-> EmptyData]

load_data(f) == IF f.exists THEN f.content ELSE EmptyData

save_data(data) == [exists |-> TRUE, content |-> data]

\* d[key] = value
DictSet(d, key, value) ==
    [k \in (DOMAIN d) \cup {key} |-> IF k = key THEN value ELSE d[k]]

\* del d[key]
DictDel(d, key) == [k \in (DOMAIN d) \ {key} |-> d[k]]

\* d.get(key, default)
DictGet(d, key, default) == IF key \in DOMAIN d THEN d[key] ELSE default

\* x in list
InList(x, list) == \E i \in 1..Len(list) : list[i] = x

\* the keys of a dict in iteration order
RECURSIVE KeysInOrder(_)
KeysInOrder(keys) ==
    IF keys = {} THEN <<>>
    ELSE LET k == CHOOSE x \in keys : \A y \in keys \ {x} : StrLess(x, y)
         IN  <<k>> \o KeysInOrder(keys \ {k})

\* a register_group_chat without the membership test
register_group_chat_appending(f, chat_id) ==
    LET data == load_data(f)
    IN  save_data([data EXCEPT !.group_chats = Append(@, chat_id)])

register_group_chat(f, chat_id) ==
    LET data == load_data(f)
    IN  IF ~InList(chat_id, data.group_chats)
        THEN save_data([data EXCEPT !.group_chats = Append(@, chat_id)])
        ELSE f

\* ", ".join(DAYS_RU[d] for d in days)
RECURSIVE DayNames(_)
DayNames(days) ==
    IF days = <<>> THEN <<>> ELSE <<DAYS_RU[Head(days) + 1]>> \o DayNames(Tail(days))

\* "this week" if wk == current_week_key() else "next week"
WhichWeek(wk, today) == IF wk = current_week_key(today) THEN "this" ELSE "next"

\* a set_days_for_user that extends the member's list instead of replacing it
set_days_for_user_appending(f, uid, name, days, wk, today) ==
    LET data == load_data(f)
        weeks1 == IF wk \notin DOMAIN data.weeks
                  THEN DictSet(data.weeks, wk, <<>>)
                  ELSE data.weeks
        old == DictGet(weeks1[wk], uid, <<>>)
        data2 == [data EXCEPT !.names = DictSet(@, uid, name),
                             !.weeks = DictSet(weeks1, wk,
                                               DictSet(weeks1[wk], uid, old \o days))]
    IN  [file |-> save_data(data2),
         reply |-> [kind |-> "set", name |-> name,
                    which |-> WhichWeek(wk, today), day_names |-> DayNames(days)]]

\* a set_days_for_user that merges the new days into the member's old ones
set_days_for_user_merging(f, uid, name, days, wk, today) ==
    LET data == load_data(f)
        weeks1 == IF wk \notin DOMAIN data.weeks
                  THEN DictSet(data.weeks, wk, <<>>)
                  ELSE data.weeks
        old == DictGet(weeks1[wk], uid, <<>>)
        merged == LET all == {old[i] : i \in 1..Len(old)} \cup {days[i] : i \in 1..Len(days)}
                      Sorted[rest \in SUBSET all] ==
                          IF rest = {} THEN <<>>
                          ELSE LET m == CHOOSE x \in rest : \A y \in rest : x <= y
                               IN  <<m>> \o Sorted[rest \ {m}]
                  IN  Sorted[all]
        data2 == [data EXCEPT !.names = DictSet(@, uid, name),
                             !.weeks = DictSet(weeks1, wk,
                                               DictSet(weeks1[wk], uid, merged))]
    IN  [file |-> save_data(data2),
         reply |-> [kind |-> "set", name |-> name,
                    which |-> WhichWeek(wk, today), day_names |-> DayNames(days)]]

set_days_for_user(f, uid, name, days, wk, today) ==
    LET data == load_data(f)
        weeks1 == IF wk \notin DOMAIN data.weeks
                  THEN DictSet(data.weeks, wk, <<>>)
                  ELSE data.weeks
        data2 == [data EXCEPT !.names = DictSet(@, uid, name),
                             !.weeks = DictSet(weeks1, wk,
                                               DictSet(weeks1[wk], uid, days))]
    IN  [file |-> save_data(data2),
         reply |-> [kind |-> "set", name |-> name,
                    which |-> WhichWeek(wk, today), day_names |-> DayNames(days)]]

\* a clear_days_for_user that deletes the whole week record
clear_days_for_user_dropping_week(f, uid, wk, today) ==
    LET data == load_data(f)
        which == WhichWeek(wk, today)
    IN  IF wk \in DOMAIN data.weeks
        THEN [file |-> save_data([data EXCEPT !.weeks = DictDel(@, wk)]),
              reply |-> [kind |-> "removed", which |-> which]]
        ELSE [file |-> f, reply |-> [kind |-> "no_records", which |-> which]]

clear_days_for_user(f, uid, wk, today) ==
    LET data == load_data(f)
        which == WhichWeek(wk, today)
    IN  IF wk \in DOMAIN data.weeks /\ uid \in DOMAIN data.weeks[wk]
        THEN [file |-> save_data([data EXCEPT !.weeks =
                                      DictSet(@, wk, DictDel(data.weeks[wk], uid))]),
              reply |-> [kind |-> "removed", which |-> which]]
        ELSE [file |-> f, reply |-> [kind |-> "no_records", which |-> which]]

(***************************************************************************)
(* Deficit computations and renderings.                                    *)
(***************************************************************************)
\* [f(x) for x in list]
RECURSIVE MapSeq(_, _)
MapSeq(F(_), list) ==
    IF list = <<>> THEN <<>> ELSE <<F(Head(list))>> \o MapSeq(F, Tail(list))

\* range(5)
Range5 == <<0, 1, 2, 3, 4>>

\* sum(1 for days_list in week_data.values() if i in days_list)
SumPresent(week_data, i) ==
    Cardinality({uid \in DOMAIN week_data : InList(i, week_data[uid])})

\* one line per weekday: marker, day name, date, count, names
format_week(data, wk, label) ==
    LET week_data == DictGet(data.weeks, wk, <<>>)
        mon == monday_of(wk)
        header == <<label, DmOf[mon], DmYOf[mon + 4]>>
        Line(i) ==
            LET uids == SelectSeq(KeysInOrder(DOMAIN week_data),
                                  LAMBDA uid : InList(i, week_data[uid]))
                people == MapSeq(LAMBDA uid :
                                     DictGet(data.names, uid, <<"i", "d", ":">> \o uid),
                                 uids)
                count == Len(people)
            IN  [marker |-> IF count < MIN_PEOPLE THEN "red" ELSE "green",
                 day_name |-> DAYS_RU[i + 1],
                 date_str |-> DmOf[mon + i],
                 count |-> count,
                 people |-> people]
    IN  [header |-> header, lines |-> MapSeq(Line, Range5)]

\* a problem_days_text that also lists the days with exactly MIN_PEOPLE
problem_days_text_inclusive(data, wk) ==
    LET week_data == DictGet(data.weeks, wk, <<>>)
        mon == monday_of(wk)
        Problem(i) == [day_name |-> DAYS_RU[i + 1],
                       date_str |-> DmOf[mon + i],
                       need |-> MIN_PEOPLE - SumPresent(week_data, i)]
        problems == MapSeq(Problem,
                           SelectSeq(Range5,
                                     LAMBDA i : SumPresent(week_data, i) <= MIN_PEOPLE))
    IN  [all_closed |-> problems = <<>>, problems |-> problems]

\* the deficit days with their shortfall, or the "all days closed" message
problem_days_text(data, wk) ==
    LET week_data == DictGet(data.weeks, wk, <<>>)
        mon == monday_of(wk)
        Problem(i) == [day_name |-> DAYS_RU[i + 1],
                       date_str |-> DmOf[mon + i],
                       need |-> MIN_PEOPLE - SumPresent(week_data, i)]
        problems == MapSeq(Problem,
                           SelectSeq(Range5,
                                     LAMBDA i : SumPresent(week_data, i) < MIN_PEOPLE))
    IN  [all_closed |-> problems = <<>>, problems |-> problems]

\* a friday_nag that looks at the current week
friday_nag_empty_this_week(data, today) ==
    LET week_data == DictGet(data.weeks, current_week_key(today), <<>>)
    IN  DayNames(SelectSeq(Range5,
                           LAMBDA i : SumPresent(week_data, i) < MIN_PEOPLE))

\* friday_nag: the names of the days of the next week that are not closed
friday_nag_empty(data, today) ==
    LET nweek_data == DictGet(data.weeks, next_week_key(today), <<>>)
    IN  DayNames(SelectSeq(Range5,
                           LAMBDA i : SumPresent(nweek_data, i) < MIN_PEOPLE))

\* midweek_lookahead: Thursday and Friday of this week
midweek_problems_this(data, today) ==
    LET week_data == DictGet(data.weeks, current_week_key(today), <<>>)
    IN  DayNames(SelectSeq(<<3, 4>>,
                           LAMBDA i : SumPresent(week_data, i) < MIN_PEOPLE))

\* midweek_lookahead: the five days of the next week
midweek_problems_next(data, today) ==
    LET nweek_data == DictGet(data.weeks, next_week_key(today), <<>>)
    IN  DayNames(SelectSeq(Range5,
                           LAMBDA i : SumPresent(nweek_data, i) < MIN_PEOPLE))

(***************************************************************************)
(* Parsing of day tokens and of the language model's directive.            *)
(***************************************************************************)
\* DAYS_MAP, Cyrillic transliterated
DAYS_MAP ==
    <<"p", "n">> :> 0 @@
    <<"p", "o", "n", "e", "d", "e", "l", "n", "i", "k">> :> 0 @@
    <<"p", "o", "n", "e", "d", "e", "l", "n", "i", "k", "a">> :> 0 @@
    <<"v", "t">> :> 1 @@
    <<"v", "t", "o", "r", "n", "i", "k">> :> 1 @@
    <<"v", "t", "o", "r", "n", "i", "k", "a">> :> 1 @@
    <<"s", "r">> :> 2 @@
    <<"s", "r", "e", "d", "a">> :> 2 @@
    <<"s", "r", "e", "d", "u">> :> 2 @@
    <<"c", "h", "t">> :> 3 @@
    <<"c", "h", "e", "t", "v", "e", "r", "g">> :> 3 @@
    <<"c", "h", "e", "t", "v", "e", "r", "g", "a">> :> 3 @@
    <<"p", "t">> :> 4 @@
    <<"p", "y", "a", "t", "n", "i", "c", "a">> :> 4 @@
    <<"p", "y", "a", "t", "n", "i", "c", "u">> :> 4

Upper == <<"A", "B", "C", "D", "E", "F", "G", "H", "I", "J", "K", "L", "M",
           "N", "O", "P", "Q", "R", "S", "T", "U", "V", "W", "X", "Y", "Z">>

Lower == <<"a", "b", "c", "d", "e", "f", "g", "h", "i", "j", "k", "l", "m",
           "n", "o", "p", "q", "r", "s", "t", "u", "v", "w", "x", "y", "z">>

UpperSet == {Upper[k] : k \in 1..26}

LowerOf == [c \in UpperSet |-> Lower[CHOOSE k \in 1..26 : Upper[k] = c]]

\* str.lower()
LowerStr(str) ==
    [i \in 1..Len(str) |-> IF str[i] \in UpperSet THEN LowerOf[str[i]] ELSE str[i]]

\* str.strip(chars)
RECURSIVE StripChars(_, _)
StripChars(str, chars) ==
    IF str = <<>> THEN str
    ELSE IF Head(str) \in chars THEN StripChars(Tail(str), chars)
    ELSE IF str[Len(str)] \in chars THEN StripChars(SubSeq(str, 1, Len(str) - 1), chars)
    ELSE str

\* sorted(set(ints)) for day indices
RECURSIVE SortedSet(_)
SortedSet(ints) ==
    IF ints = {} THEN <<>>
    ELSE LET m == CHOOSE x \in ints : \A y \in ints : x <= y
         IN  <<m>> \o SortedSet(ints \ {m})

SeqRange(list) == {list[i] : i \in 1..Len(list)}

\* a parse_days that returns the days in the order and number of the tokens
parse_days_keeping_duplicates(args) ==
    LET keys == MapSeq(LAMBDA a : StripChars(LowerStr(a), {",", "."}), args)
        known == SelectSeq(keys, LAMBDA key : key \in DOMAIN DAYS_MAP)
        days == MapSeq(LAMBDA key : DAYS_MAP[key], known)
    IN  IF days # <<>> THEN [none |-> FALSE, days |-> days]
        ELSE [none |-> TRUE, days |-> <<>>]

\* the result of parse_days: None, or the sorted list of the recognized days
parse_days(args) ==
    LET keys == MapSeq(LAMBDA a : StripChars(LowerStr(a), {",", "."}), args)
        known == SelectSeq(keys, LAMBDA key : key \in DOMAIN DAYS_MAP)
        days == MapSeq(LAMBDA key : DAYS_MAP[key], known)
    IN  IF days # <<>> THEN [none |-> FALSE, days |-> SortedSet(SeqRange(days))]
        ELSE [none |-> TRUE, days |-> <<>>]

\* text[i:].startswith(lit)
StartsWithAt(text, i, lit) ==
    /\ i + Len(lit) - 1 <= Len(text)
    /\ \A k \in 1..Len(lit) : text[i + k - 1] = lit[k]

\* the end (exclusive) of the longest run of characters of `class` from i
RECURSIVE RunEnd(_, _, _)
RunEnd(text, i, class) ==
    IF i <= Len(text) /\ text[i] \in class THEN RunEnd(text, i + 1, class) ELSE i

Lit_ACTION == <<"A", "C", "T", "I", "O", "N", ":">>
Lit_SET == <<"S", "E", "T">>
Lit_CLEAR == <<"C", "L", "E", "A", "R">>
Lit_this == <<"t", "h", "i", "s">>
Lit_next == <<"n", "e", "x", "t">>

Lit_ACTION_SET == Lit_ACTION \o Lit_SET
Lit_ACTION_CLEAR == Lit_ACTION \o Lit_CLEAR

\* re.search: the leftmost position from i where "ACTION:SET" or "ACTION:CLEAR"
\* starts (the rest of the pattern matches the empty string), 0 if none
RECURSIVE SearchFrom(_, _)
SearchFrom(text, i) ==
    IF i > Len(text) THEN 0
    ELSE IF text[i] = "A" /\ (\/ StartsWithAt(text, i, Lit_ACTION_SET)
                              \/ StartsWithAt(text, i, Lit_ACTION_CLEAR))
    THEN i
    ELSE SearchFrom(text, i + 1)

NoAction == [none |-> TRUE, type |-> "", days |-> <<>>, week |-> <<>>, week_label |-> ""]

\* re.search(r"ACTION:(SET|CLEAR):?([0-4,]*):?(this|next)?", text) and the
\* checks that follow it
parse_action(text, today) ==
    LET i0 == SearchFrom(text, 1)
    IN  IF i0 = 0 THEN NoAction
        ELSE
          LET action_type == IF StartsWithAt(text, i0, Lit_ACTION_SET)
                             THEN "SET" ELSE "CLEAR"
              p1 == i0 + Len(Lit_ACTION)
                       + (IF action_type = "SET" THEN Len(Lit_SET) ELSE Len(Lit_CLEAR))
              p2 == IF StartsWithAt(text, p1, <<":">>) THEN p1 + 1 ELSE p1
              p3 == RunEnd(text, p2, {"0", "1", "2", "3", "4", ","})
              days_str == SubSeq(text, p2, p3 - 1)
              p4 == IF StartsWithAt(text, p3, <<":">>) THEN p3 + 1 ELSE p3
              week_target == IF StartsWithAt(text, p4, Lit_this) THEN "this"
                             ELSE IF StartsWithAt(text, p4, Lit_next) THEN "next"
                             ELSE "this"
              wk == IF week_target = "this" THEN current_week_key(today)
                    ELSE next_week_key(today)
              good == SelectSeq(Split(days_str, ","),
                                LAMBDA d : IsDigitStr(d) /\ 0 <= StrToInt(d)
                                                         /\ StrToInt(d) <= 4)
              days == SortedSet({StrToInt(good[k]) : k \in 1..Len(good)})
          IN  IF action_type = "SET" /\ days_str # <<>> /\ days # <<>>
              THEN [none |-> FALSE, type |-> "SET", days |-> days, week |-> wk,
                    week_label |-> week_target]
              ELSE IF action_type = "CLEAR"
              THEN [none |-> FALSE, type |-> "CLEAR", days |-> <<>>, week |-> wk,
                    week_label |-> week_target]
              ELSE NoAction

\* the end (exclusive) of the line that position i is in
RECURSIVE LineEnd(_, _)
LineEnd(text, i) ==
    IF i <= Len(text) /\ text[i] # "\n" THEN LineEnd(text, i + 1) ELSE i

StartsAction(text, i) ==
    StartsWithAt(text, i, Lit_ACTION_SET) \/ StartsWithAt(text, i, Lit_ACTION_CLEAR)

\* re.sub(r"\n?ACTION:(SET|CLEAR)[^\n]*", "", text)
RECURSIVE SubActionLines(_, _)
SubActionLines(text, i) ==
    IF i > Len(text) THEN <<>>
    ELSE IF text[i] = "\n" /\ StartsAction(text, i + 1)
    THEN SubActionLines(text, LineEnd(text, i + 1))
    ELSE IF StartsAction(text, i)
    THEN SubActionLines(text, LineEnd(text, i))
    ELSE <<text[i]>> \o SubActionLines(text, i + 1)

strip_action_line(text) == StripChars(SubActionLines(text, 1), {" ", "\n"})

(***************************************************************************)
(* Inputs: the arguments of /set, the messages, the language model's       *)
(* replies.                                                                *)
(***************************************************************************)
ArgInputs ==
    { <<>>,
      <<<<"P", "n">>, <<"S", "r", ",">>>>,
      <<<<"x", "x">>>>,
      <<<<"p", "t">>, <<"x", "x">>, <<"P", "y", "a", "t", "n", "i", "c", "u", ".">>>> }

LLMReplies ==
    { <<"o", "k">>,
      <<"o", "k", "\n", "A", "C", "T", "I", "O", "N", ":", "S", "E", "T", ":", "0", ",", "2", ":", "t", "h", "i", "s">>,
      <<"o", "k", "\n", "A", "C", "T", "I", "O", "N", ":", "S", "E", "T", ":", "4", ":", "n", "e", "x", "t">>,
      <<"A", "C", "T", "I", "O", "N", ":", "C", "L", "E", "A", "R", ":", "t", "h", "i", "s">>,
      <<"A", "C", "T", "I", "O", "N", ":", "S", "E", "T", ":", "t", "h", "i", "s">> }

\* a message: its words ("@bot" is the mention of the bot) and whether it is
\* a reply to a message of the bot
Messages ==
    { [words |-> <<"hi">>, reply_to_bot |-> FALSE],
      [words |-> <<"@bot", "hi">>, reply_to_bot |-> FALSE],
      [words |-> <<"@bot">>, reply_to_bot |-> TRUE] }

(***************************************************************************)
(* Handlers, as functions of the store file, the update and the clock.     *)
(* Each returns the new file and the reply; handle_text also the prompt it *)
(* shows, handle_callback the new state of the prompt.                     *)
(***************************************************************************)
Lit_set == <<"s", "e", "t">>
Lit_clear == <<"c", "l", "e", "a", "r">>
Lit_cancel == <<"c", "a", "n", "c", "e", "l">>

\* the chat registration every handler of a non-private chat starts with
Registered(f, chat) ==
    IF chat.type # "private" THEN register_group_chat(f, chat.id) ELSE f

cmd_start(f, chat) == [file |-> Registered(f, chat), reply |-> "help"]

_do_set(f, user, chat, args, wk, today) ==
    LET f1 == Registered(f, chat)
        days == parse_days(args)
    IN  IF args = <<>> THEN [file |-> f1, reply |-> "give_days"]
        ELSE IF days.none THEN [file |-> f1, reply |-> "days_not_understood"]
        ELSE LET r == set_days_for_user(f1, IntToStr(user.id), get_display_name(user),
                                        days.days, wk, today)
             IN  [file |-> r.file, reply |-> r.reply.kind]

cmd_set(f, user, chat, args, today) ==
    _do_set(f, user, chat, args, current_week_key(today), today)

cmd_setnext(f, user, chat, args, today) ==
    _do_set(f, user, chat, args, next_week_key(today), today)

cmd_clear(f, user, today) ==
    LET r == clear_days_for_user(f, IntToStr(user.id), current_week_key(today), today)
    IN  [file |-> r.file, reply |-> r.reply.kind]

cmd_clearnext(f, user, today) ==
    LET r == clear_days_for_user(f, IntToStr(user.id), next_week_key(today), today)
    IN  [file |-> r.file, reply |-> r.reply.kind]

cmd_week(f, chat) == [file |-> Registered(f, chat), reply |-> "week"]

\* toggle_chat(chat_id): removes the chat if present, adds it if absent, and
\* returns the resulting state
toggle_chat(f, chat_id) ==
    LET data == load_data(f)
    IN  IF InList(chat_id, data.group_chats)
        THEN [file |-> save_data([data EXCEPT !.group_chats =
                                      SelectSeq(@, LAMBDA c : c # chat_id)]),
              enabled |-> FALSE]
        ELSE [file |-> save_data([data EXCEPT !.group_chats = Append(@, chat_id)]),
              enabled |-> TRUE]

\* /remind: toggles the notifications of the invoking chat
cmd_remind(f, chat) ==
    LET r == toggle_chat(f, chat.id)
    IN  [file |-> r.file, reply |-> IF r.enabled THEN "enabled" ELSE "disabled"]

cmd_next(f) == [file |-> f, reply |-> "next"]

cmd_status(f) == [file |-> f, reply |-> "status"]

\* the callback_data of the confirm button; a prompt is the message that
\* carries it: `owner`, `chat` and `action` record who was asked what and where,
\* `state` what the message shows (the buttons, "canceled" or the result)
ConfirmPayload(action, uid) ==
    IF action.type = "SET"
    THEN Join(<<Lit_set, uid, Join(MapSeq(IntToStr, action.days), <<",">>), action.week>>,
              <<":">>)
    ELSE Join(<<Lit_clear, uid, action.week>>, <<":">>)

\* a handle_text that carries out the directive at once
handle_text_executing(f, user, chat, msg, llm_response, today) ==
    LET f1 == Registered(f, chat)
        addressed == InList("@bot", msg.words) \/ msg.reply_to_bot
        text == IF chat.type # "private"
                THEN SelectSeq(msg.words, LAMBDA w : w # "@bot")
                ELSE msg.words
        action == parse_action(llm_response, today)
        uid == IntToStr(user.id)
    IN  IF chat.type # "private" /\ ~addressed
        THEN [file |-> f1, reply |-> "", prompt |-> <<>>]
        ELSE IF text = <<>>
        THEN [file |-> f1, reply |-> "", prompt |-> <<>>]
        ELSE IF ~action.none
        THEN [file |-> IF action.type = "SET"
                       THEN set_days_for_user(f1, uid, get_display_name(user),
                                              action.days, action.week, today).file
                       ELSE clear_days_for_user(f1, uid, action.week, today).file,
              reply |-> "confirm?",
              prompt |-> <<[cb |-> ConfirmPayload(action, uid),
                            owner |-> user.id, chat |-> chat, action |-> action,
                            state |-> "pending"]>>]
        ELSE [file |-> f1, reply |-> IF strip_action_line(llm_response) # <<>>
                                     THEN "chat" ELSE "",
              prompt |-> <<>>]

handle_text(f, user, chat, msg, llm_response, today) ==
    LET f1 == Registered(f, chat)
        addressed == InList("@bot", msg.words) \/ msg.reply_to_bot
        text == IF chat.type # "private"
                THEN SelectSeq(msg.words, LAMBDA w : w # "@bot")
                ELSE msg.words
        action == parse_action(llm_response, today)
    IN  IF chat.type # "private" /\ ~addressed
        THEN [file |-> f1, reply |-> "", prompt |-> <<>>]
        ELSE IF text = <<>>
        THEN [file |-> f1, reply |-> "", prompt |-> <<>>]
        ELSE IF ~action.none
        THEN [file |-> f1, reply |-> "confirm?",
              prompt |-> <<[cb |-> ConfirmPayload(action, IntToStr(user.id)),
                            owner |-> user.id, chat |-> chat, action |-> action,
                            state |-> "pending"]>>]
        ELSE [file |-> f1, reply |-> IF strip_action_line(llm_response) # <<>>
                                     THEN "chat" ELSE "",
              prompt |-> <<>>]

\* handle_text up to `await ask_llm`: the chat registration, whether the bot
\* engages with the message, and the data loaded for the schedule summary
handle_text_begin(f, user, chat, msg) ==
    LET f1 == Registered(f, chat)
        addressed == InList("@bot", msg.words) \/ msg.reply_to_bot
        text == IF chat.type # "private"
                THEN SelectSeq(msg.words, LAMBDA w : w # "@bot")
                ELSE msg.words
    IN  [file |-> f1,
         engaged |-> ~(chat.type # "private" /\ ~addressed) /\ text # <<>>,
         call |-> [user |-> user, chat |-> chat, data |-> load_data(f1)]]

\* a continuation of handle_text that writes back the data it loaded before
\* the await
handle_text_end_saving(f, call, llm_response, today) ==
    LET action == parse_action(llm_response, today)
        f1 == save_data(call.data)
    IN  IF ~action.none
        THEN [file |-> f1, reply |-> "confirm?",
              prompt |-> <<[cb |-> ConfirmPayload(action, IntToStr(call.user.id)),
                            owner |-> call.user.id, chat |-> call.chat,
                            action |-> action, state |-> "pending"]>>]
        ELSE [file |-> f1, reply |-> IF strip_action_line(llm_response) # <<>>
                                     THEN "chat" ELSE "",
              prompt |-> <<>>]

\* handle_text after `await ask_llm`: the directive is parsed and proposed;
\* nothing is saved
handle_text_end(f, call, llm_response, today) ==
    LET action == parse_action(llm_response, today)
    IN  IF ~action.none
        THEN [file |-> f, reply |-> "confirm?",
              prompt |-> <<[cb |-> ConfirmPayload(action, IntToStr(call.user.id)),
                            owner |-> call.user.id, chat |-> call.chat,
                            action |-> action, state |-> "pending"]>>]
        ELSE [file |-> f, reply |-> IF strip_action_line(llm_response) # <<>>
                                    THEN "chat" ELSE "",
              prompt |-> <<>>]

\* a handle_callback that does not edit the prompt when it is canceled
handle_callback_keeping_buttons(f, user, cb, today) ==
    LET user_id == IntToStr(user.id)
        parts == Split(cb, ":")
    IN  IF cb = Lit_cancel
        THEN [file |-> f, reply |-> "canceled", state |-> "pending"]
        ELSE IF parts[1] = Lit_set
        THEN IF user_id # parts[2]
             THEN [file |-> f, reply |-> "not_for_you", state |-> "pending"]
             ELSE LET days == MapSeq(StrToInt, Split(parts[3], ","))
                      r == set_days_for_user(f, parts[2], get_display_name(user), days,
                                             parts[4], today)
                  IN  [file |-> r.file, reply |-> r.reply.kind, state |-> "done"]
        ELSE IF parts[1] = Lit_clear
        THEN IF user_id # parts[2]
             THEN [file |-> f, reply |-> "not_for_you", state |-> "pending"]
             ELSE LET r == clear_days_for_user(f, parts[2], parts[3], today)
                  IN  [file |-> r.file, reply |-> r.reply.kind, state |-> "done"]
        ELSE [file |-> f, reply |-> "", state |-> "pending"]

\* a handle_callback that writes under the week of the press, not of the payload
handle_callback_current_week(f, user, cb, today) ==
    LET user_id == IntToStr(user.id)
        parts == Split(cb, ":")
    IN  IF cb = Lit_cancel
        THEN [file |-> f, reply |-> "canceled", state |-> "canceled"]
        ELSE IF parts[1] = Lit_set
        THEN IF user_id # parts[2]
             THEN [file |-> f, reply |-> "not_for_you", state |-> "pending"]
             ELSE LET days == MapSeq(StrToInt, Split(parts[3], ","))
                      r == set_days_for_user(f, parts[2], get_display_name(user), days,
                                             current_week_key(today), today)
                  IN  [file |-> r.file, reply |-> r.reply.kind, state |-> "done"]
        ELSE IF parts[1] = Lit_clear
        THEN IF user_id # parts[2]
             THEN [file |-> f, reply |-> "not_for_you", state |-> "pending"]
             ELSE LET r == clear_days_for_user(f, parts[2], current_week_key(today), today)
                  IN  [file |-> r.file, reply |-> r.reply.kind, state |-> "done"]
        ELSE [file |-> f, reply |-> "", state |-> "pending"]

\* a handle_callback that does not compare the presser with the payload's user
handle_callback_unchecked(f, user, cb, today) ==
    LET user_id == IntToStr(user.id)
        parts == Split(cb, ":")
    IN  IF cb = Lit_cancel
        THEN [file |-> f, reply |-> "canceled", state |-> "canceled"]
        ELSE IF parts[1] = Lit_set
        THEN LET days == MapSeq(StrToInt, Split(parts[3], ","))
                 r == set_days_for_user(f, parts[2], get_display_name(user), days,
                                        parts[4], today)
             IN  [file |-> r.file, reply |-> r.reply.kind, state |-> "done"]
        ELSE IF parts[1] = Lit_clear
        THEN LET r == clear_days_for_user(f, parts[2], parts[3], today)
             IN  [file |-> r.file, reply |-> r.reply.kind, state |-> "done"]
        ELSE [file |-> f, reply |-> "", state |-> "pending"]

handle_callback(f, user, cb, today) ==
    LET user_id == IntToStr(user.id)
        parts == Split(cb, ":")
    IN  IF cb = Lit_cancel
        THEN [file |-> f, reply |-> "canceled", state |-> "canceled"]
        ELSE IF parts[1] = Lit_set
        THEN IF user_id # parts[2]
             THEN [file |-> f, reply |-> "not_for_you", state |-> "pending"]
             ELSE LET days == MapSeq(StrToInt, Split(parts[3], ","))
                      r == set_days_for_user(f, parts[2], get_display_name(user), days,
                                             parts[4], today)
                  IN  [file |-> r.file, reply |-> r.reply.kind, state |-> "done"]
        ELSE IF parts[1] = Lit_clear
        THEN IF user_id # parts[2]
             THEN [file |-> f, reply |-> "not_for_you", state |-> "pending"]
             ELSE LET r == clear_days_for_user(f, parts[2], parts[3], today)
                  IN  [file |-> r.file, reply |-> r.reply.kind, state |-> "done"]
        ELSE [file |-> f, reply |-> "", state |-> "pending"]

(***************************************************************************)
(* Scheduled jobs.                                                         *)
(***************************************************************************)
\* the text of an alert, or <<>> when the job sends nothing
morning_reminder(f, today) ==
    LET data == load_data(f)
        week_data == DictGet(data.weeks, current_week_key(today), <<>>)
        today_idx == weekday(today)
        uids == SelectSeq(KeysInOrder(DOMAIN week_data),
                          LAMBDA uid : InList(today_idx, week_data[uid]))
        count == Len(uids)
    IN  IF today_idx > 4 THEN <<>>
        ELSE IF count < MIN_PEOPLE
        THEN <<[job |-> "morning", days |-> <<DAYS_RU[today_idx + 1]>>,
                more |-> <<>>, need |-> MIN_PEOPLE - count]>>
        ELSE <<>>

\* a midweek_lookahead that is silent whenever the next week is closed
midweek_lookahead_next_only(f, today) ==
    LET data == load_data(f)
        problems_this == midweek_problems_this(data, today)
        problems_next == midweek_problems_next(data, today)
    IN  IF weekday(today) # 2 THEN <<>>
        ELSE IF problems_next = <<>> THEN <<>>
        ELSE <<[job |-> "midweek", days |-> problems_this, more |-> problems_next,
                need |-> 0]>>

midweek_lookahead(f, today) ==
    LET data == load_data(f)
        problems_this == midweek_problems_this(data, today)
        problems_next == midweek_problems_next(data, today)
    IN  IF weekday(today) # 2 THEN <<>>
        ELSE IF problems_this = <<>> /\ problems_next = <<>> THEN <<>>
        ELSE <<[job |-> "midweek", days |-> problems_this, more |-> problems_next,
                need |-> 0]>>

friday_nag(f, today) ==
    LET data == load_data(f)
        empty == friday_nag_empty(data, today)
    IN  IF weekday(today) # 4 THEN <<>>
        ELSE IF empty = <<>> THEN <<>>
        ELSE <<[job |-> "friday", days |-> <<>>, more |-> empty, need |-> 0]>>

\* a broadcast whose loop ends at the first delivery that raises
RECURSIVE SendUntilFailure(_, _, _)
SendUntilFailure(chats, text, fails) ==
    IF chats = <<>> THEN <<>>
    ELSE IF Head(chats) \in fails
    THEN <<[chat_id |-> Head(chats), text |-> text, delivered |-> FALSE]>>
    ELSE <<[chat_id |-> Head(chats), text |-> text, delivered |-> TRUE]>>
             \o SendUntilFailure(Tail(chats), text, fails)

Broadcast_stopping(f, text, fails) ==
    IF text = <<>> THEN <<>>
    ELSE SendUntilFailure(load_data(f).group_chats, text[1], fails)

\* a broadcast to every group, registered or not
Broadcast_to_all(f, text, fails) ==
    IF text = <<>> THEN <<>>
    ELSE MapSeq(LAMBDA chat_id : [chat_id |-> chat_id, text |-> text[1],
                                  delivered |-> chat_id \notin fails],
                SortedSet({chat.id : chat \in AllGroupChats}))

\* for chat_id in data["group_chats"]: try send_message except: log
\* `fails` is the set of chats whose delivery raises
Broadcast(f, text, fails) ==
    IF text = <<>> THEN <<>>
    ELSE MapSeq(LAMBDA chat_id : [chat_id |-> chat_id, text |-> text[1],
                                  delivered |-> chat_id \notin fails],
                load_data(f).group_chats)

cleanup_old_weeks(f, today) ==
    LET data == load_data(f)
        cutoff == strftime_Ymd(today - 7 * RetentionWeeks)
        old == {k \in DOMAIN data.weeks : StrLess(k, cutoff)}
    IN  IF old # {}
        THEN save_data([data EXCEPT !.weeks = [k \in (DOMAIN @) \ old |-> @[k]]])
        ELSE f

(***************************************************************************)
(* The state machine.  `now` is today's day number, `file` is data.json,   *)
(* `prompts` are the confirmation prompts the bot has shown, `last` is the *)
(* bot's answer to the last update, `nops` counts the updates, `inflight`   *)
(* are the handle_text calls suspended at `await ask_llm`, each with the   *)
(* data it has loaded.                                                     *)
(***************************************************************************)
Answer(op, reply) == [op |-> op, reply |-> reply]

Init ==
    /\ now = StartDay
    /\ file = NoFile
    /\ prompts = <<>>
    /\ last = Answer("", "")
    /\ nops = 0
    /\ inflight = <<>>

\* time passes
Tick ==
    /\ now + ClockStep <= StartDay + ClockStep * MaxTicks
    /\ now' = now + ClockStep
    /\ UNCHANGED <<file, prompts, last, nops, inflight>>

\* a handler that answers an update without showing or touching a prompt
Reply(op, r) ==
    /\ nops < MaxOps
    /\ nops' = nops + 1
    /\ file' = r.file
    /\ last' = Answer(op, r.reply)
    /\ UNCHANGED <<now, prompts, inflight>>

CmdStart ==
    \E user \in Users : \E chat \in ChatsOf(user) :
        Reply("start", cmd_start(file, chat))

CmdSetIn(chats) ==
    \E user \in Users : \E chat \in ChatsOf(user) \cap chats : \E args \in ArgInputs :
        Reply("set", cmd_set(file, user, chat, args, now))

CmdSet == CmdSetIn(UNION {ChatsOf(user) : user \in Users})

CmdSetNext ==
    \E user \in Users : \E chat \in ChatsOf(user) : \E args \in ArgInputs :
        Reply("setnext", cmd_setnext(file, user, chat, args, now))

CmdClear ==
    \E user \in Users : Reply("clear", cmd_clear(file, user, now))

CmdClearNext ==
    \E user \in Users : Reply("clearnext", cmd_clearnext(file, user, now))

CmdWeek ==
    \E user \in Users : \E chat \in ChatsOf(user) :
        Reply("week", cmd_week(file, chat))

CmdNext == Reply("next", cmd_next(file))

CmdStatus == Reply("status", cmd_status(file))

HandleTextBy(user, chat, msg, llm_response) ==
    LET r == handle_text(file, user, chat, msg, llm_response, now)
    IN  /\ nops < MaxOps
        /\ Len(prompts) + Len(r.prompt) <= MaxPrompts
        /\ nops' = nops + 1
        /\ file' = r.file
        /\ prompts' = prompts \o r.prompt
        /\ last' = Answer("text", r.reply)
        /\ UNCHANGED <<now, inflight>>

HandleTextIn(chats) ==
    \E user \in Users : \E chat \in ChatsOf(user) \cap chats :
        \E msg \in Messages : \E llm_response \in LLMReplies :
            HandleTextBy(user, chat, msg, llm_response)

HandleText == HandleTextIn(UNION {ChatsOf(user) : user \in Users})

\* the users who can press a button of a prompt: the members of its chat
CanPress(p) == {user \in Users : p.chat \in ChatsOf(user)}

\* the callback_data a button of prompt p sends
ButtonData(p, button) == IF button = "confirm" THEN p.cb ELSE Lit_cancel

\* a press of a button of prompt i, which still shows its buttons
Press(i, user, button) ==
    LET r == handle_callback(file, user, ButtonData(prompts[i], button), now)
    IN  /\ nops < MaxOps
        /\ prompts[i].state = "pending"
        /\ user \in CanPress(prompts[i])
        /\ nops' = nops + 1
        /\ file' = r.file
        /\ prompts' = [prompts EXCEPT ![i].state = r.state]
        /\ last' = Answer("callback", r.reply)
        /\ UNCHANGED <<now, inflight>>

HandleCallback ==
    \E i \in 1..Len(prompts) : \E user \in Users : \E button \in {"confirm", "cancel"} :
        Press(i, user, button)

\* a notifier reads the store and sends; it keeps no state
Job(text) ==
    \E fails \in SUBSET SeqRange(load_data(file).group_chats) :
        /\ Len(Broadcast(file, text, fails)) = Len(load_data(file).group_chats) * Len(text)
        /\ UNCHANGED vars

MorningReminder == Job(morning_reminder(file, now))

MidweekLookahead == Job(midweek_lookahead(file, now))

FridayNag == Job(friday_nag(file, now))

CleanupOldWeeks ==
    /\ file' = cleanup_old_weeks(file, now)
    /\ UNCHANGED <<now, prompts, last, nops, inflight>>

Next ==
    \/ Tick
    \/ CmdStart
    \/ CmdSet
    \/ CmdSetNext
    \/ CmdClear
    \/ CmdClearNext
    \/ CmdWeek
    \/ CmdNext
    \/ CmdStatus
    \/ HandleText
    \/ HandleCallback
    \/ MorningReminder
    \/ MidweekLookahead
    \/ FridayNag
    \/ CleanupOldWeeks

Spec == Init /\ [][Next]_vars

\* the store, its commands and the jobs that read or sweep it
NextStore ==
    \/ Tick
    \/ CmdSet
    \/ CmdSetNext
    \/ CmdClear
    \/ CmdClearNext
    \/ CmdWeek
    \/ CmdStatus
    \/ MidweekLookahead
    \/ FridayNag
    \/ CleanupOldWeeks

SpecStore == Init /\ [][NextStore]_vars

\* the notifiers with two groups: every update comes from a group
GroupWeek ==
    \E chat \in AllGroupChats : Reply("week", cmd_week(file, chat))

GroupSetNext ==
    \E user \in Users : \E chat \in AllGroupChats : \E args \in ArgInputs :
        Reply("setnext", cmd_setnext(file, user, chat, args, now))

NextNotify ==
    \/ Tick
    \/ GroupWeek
    \/ GroupSetNext
    \/ MorningReminder
    \/ MidweekLookahead
    \/ FridayNag

SpecNotify == Init /\ [][NextNotify]_vars

\* the same with the /remind command
CmdRemind ==
    \E chat \in AllGroupChats : Reply("remind", cmd_remind(file, chat))

NextRemind ==
    \/ NextNotify
    \/ CmdRemind

SpecRemind == Init /\ [][NextRemind]_vars

\* the confirmation flow in a group chat, where every member can press the
\* buttons, and what can come between a proposal and a press
GroupText == HandleTextIn(GroupChats)

GroupSet == CmdSetIn(GroupChats)

NextConfirm ==
    \/ Tick
    \/ GroupText
    \/ HandleCallback
    \/ GroupSet
    \/ CmdClear
    \/ FridayNag
    \/ CleanupOldWeeks

SpecConfirm == Init /\ [][NextConfirm]_vars

\* handle_text in two steps, with the other handlers and the sweep running
\* while it awaits the language model
TextBegin ==
    \E user \in Users : \E chat \in GroupChats : \E msg \in Messages :
        LET r == handle_text_begin(file, user, chat, msg)
        IN  /\ nops < MaxOps
            /\ nops' = nops + 1
            /\ file' = r.file
            /\ inflight' = IF r.engaged THEN Append(inflight, r.call) ELSE inflight
            /\ last' = IF r.engaged THEN last ELSE Answer("text", "")
            /\ UNCHANGED <<now, prompts>>

TextEnd ==
    \E k \in 1..Len(inflight) : \E llm_response \in LLMReplies :
        LET r == handle_text_end(file, inflight[k], llm_response, now)
        IN  /\ Len(prompts) + Len(r.prompt) <= MaxPrompts
            /\ file' = r.file
            /\ prompts' = prompts \o r.prompt
            /\ inflight' = SubSeq(inflight, 1, k - 1) \o SubSeq(inflight, k + 1, Len(inflight))
            /\ last' = Answer("text", r.reply)
            /\ UNCHANGED <<now, nops>>

NextAsync ==
    \/ Tick
    \/ TextBegin
    \/ TextEnd
    \/ HandleCallback
    \/ GroupSet
    \/ CmdClear
    \/ CleanupOldWeeks

SpecAsync == Init /\ [][NextAsync]_vars

TypeOK ==
    /\ now \in StartDay..(StartDay + ClockStep * MaxTicks)
    /\ nops \in 0..MaxOps
    /\ Len(prompts) <= MaxPrompts
    /\ Len(inflight) <= MaxOps

(***************************************************************************)
(* Properties.                                                             *)
(***************************************************************************)
\* the store as the next load reads it
Store == load_data(file)

\* the arguments the store operations are tried with in every reachable state
UidInputs == {IntToStr(user.id) : user \in Users}

MemberInputs == {[uid |-> IntToStr(user.id), name |-> get_display_name(user)] : user \in Users}

NameInputs == {get_display_name(user) : user \in Users}

DayListInputs == {<<0, 2>>, <<2, 4>>}

WeekInputs == {current_week_key(now), next_week_key(now)} \cup DOMAIN Store.weeks

\* the members signed up for weekday d of week wk
Attending(data, wk, d) ==
    LET week_data == DictGet(data.weeks, wk, <<>>)
    IN  {m \in DOMAIN week_data : d \in SeqRange(week_data[m])}

\* the deficit days of week wk
Deficit(data, wk) == {d \in 0..4 : Cardinality(Attending(data, wk, d)) < MIN_PEOPLE}

\* the week key four weeks before the current week key
WeekCutoff == strftime_Ymd(monday_of(current_week_key(now)) - 7 * RetentionWeeks)

\* C1 (as claimed): on any day, one run of the retention sweep removes exactly
\* the week records whose key is strictly less than the week key four weeks
\* before current_week_key(), and keeps every other week record, the one
\* whose key equals that cutoff included.
C1_SweepRemovesBelowWeekCutoff ==
    [][CleanupOldWeeks =>
          LET before == load_data(file).weeks
              after == load_data(file').weeks
          IN  /\ DOMAIN after = {k \in DOMAIN before : ~StrLess(k, WeekCutoff)}
              /\ \A k \in DOMAIN after : after[k] = before[k]]_vars

\* C2: a press of the confirm button of a prompt by a user other than the one
\* the prompt was proposed to is rejected and leaves the whole store (week
\* records, member directory, chat registry) unchanged.
C2_ForeignConfirmRejected ==
    [][\A i \in 1..Len(prompts) : \A user \in Users :
          (Press(i, user, "confirm") /\ user.id # prompts[i].owner)
              => /\ load_data(file') = load_data(file)
                 /\ file' = file
                 /\ last'.reply = "not_for_you"]_vars

\* C2 witness: a confirm press has just been rejected for a foreign user.
C2_Witness ==
    /\ last = Answer("callback", "not_for_you")
    /\ \E i \in 1..Len(prompts) : prompts[i].state = "pending"

\* C3 (as claimed): every button of a pending prompt, cancel included, is
\* rejected when pressed by a user other than the one the prompt was proposed
\* to: the prompt stays pending.
C3_ForeignPressKeepsPending ==
    [][\A i \in 1..Len(prompts) : \A user \in Users : \A button \in {"confirm", "cancel"} :
          (Press(i, user, button) /\ user.id # prompts[i].owner)
              => prompts'[i].state = "pending"]_vars

\* C4: handling a free-text message never changes a week record; a button
\* press changes one only when the user the prompt was proposed to presses the
\* confirm button of a pending prompt.
C4_TextOnlyProposes ==
    [][load_data(file').weeks # load_data(file).weeks
          => /\ ~HandleText
             /\ HandleCallback
                    => \E i \in 1..Len(prompts) : \E user \in Users :
                          /\ Press(i, user, "confirm")
                          /\ user.id = prompts[i].owner
                          /\ prompts[i].state = "pending"
                          /\ prompts'[i].state = "done"]_vars

\* C4 witness: a proposal made by a free-text message has been confirmed and
\* is in the store.
C4_Witness ==
    /\ last = Answer("callback", "set")
    /\ \E i \in 1..Len(prompts) :
          /\ prompts[i].state = "done"
          /\ prompts[i].action.type = "SET"
          /\ prompts[i].action.week \in DOMAIN Store.weeks

\* C5: a press of cancel leaves the whole store unchanged and turns the prompt
\* into its canceled state; a canceled prompt stays canceled, so the action it
\* proposed is never committed by it.
C5_CancelCommitsNothing ==
    [][\A i \in 1..Len(prompts) :
          /\ \A user \in Users :
                Press(i, user, "cancel")
                    => /\ load_data(file') = load_data(file)
                       /\ prompts'[i].state = "canceled"
          /\ prompts[i].state = "canceled"
                => /\ Len(prompts') >= i
                   /\ prompts'[i] = prompts[i]]_vars

\* C5 witness: a prompt has just been canceled.
C5_Witness ==
    /\ last = Answer("callback", "canceled")
    /\ \E i \in 1..Len(prompts) : prompts[i].state = "canceled"

C7_SetDaysIdempotent ==
    LET weeks == WeekInputs
    IN  \A wk \in weeks : \A m \in MemberInputs : \A days \in DayListInputs :
            LET once == set_days_for_user(file, m.uid, m.name, days, wk, now).file
                twice == set_days_for_user(once, m.uid, m.name, days, wk, now).file
            IN  load_data(twice) = load_data(once)

\* C7 witness: a member who has an entry has just set days again.
C7_Witness ==
    /\ last.reply = "set"
    /\ nops >= 2
    /\ \E wk \in DOMAIN Store.weeks : \E uid \in UidInputs :
          /\ uid \in DOMAIN Store.weeks[wk]
          /\ Store.weeks[wk][uid] = <<0, 2>>
          /\ Cardinality(DOMAIN Store.weeks) = 1
          /\ DOMAIN Store.weeks[wk] = {uid}

\* C8: set_days replaces: afterwards the member's days for the week are the
\* given days, the week record exists, the directory maps the member to the
\* given name, and every other entry of the week and every other week record
\* is as before.
C8_SetDaysReplaces ==
    LET weeks == WeekInputs
    IN  \A wk \in weeks : \A uid \in UidInputs : \A name \in NameInputs :
          \A days \in DayListInputs :
            LET before == load_data(file)
                after == load_data(set_days_for_user(file, uid, name, days, wk, now).file)
                old == DictGet(before.weeks, wk, <<>>)
            IN  /\ wk \in DOMAIN after.weeks
                /\ DOMAIN after.weeks[wk] = (DOMAIN old) \cup {uid}
                /\ after.weeks[wk][uid] = days
                /\ \A m \in (DOMAIN old) \ {uid} : after.weeks[wk][m] = old[m]
                /\ DOMAIN after.weeks = (DOMAIN before.weeks) \cup {wk}
                /\ \A k \in (DOMAIN before.weeks) \ {wk} : after.weeks[k] = before.weeks[k]
                /\ uid \in DOMAIN after.names
                /\ after.names[uid] = name

\* C8 witness: a week record holds the entries of two members.
C8_Witness ==
    /\ last.reply = "set"
    /\ \E wk \in DOMAIN Store.weeks : Cardinality(DOMAIN Store.weeks[wk]) = 2

\* C9: clear_days for a member without an entry for the week (the week record
\* absent, or present without the member) answers "no records" and leaves the
\* store as it is; for a member with an entry it removes that entry alone and
\* answers "removed".
C9_ClearDays ==
    \A wk \in WeekInputs : \A uid \in UidInputs :
        LET before == load_data(file)
            r == clear_days_for_user(file, uid, wk, now)
            after == load_data(r.file)
        IN  IF wk \in DOMAIN before.weeks /\ uid \in DOMAIN before.weeks[wk]
            THEN /\ r.reply.kind = "removed"
                 /\ DOMAIN after.weeks = DOMAIN before.weeks
                 /\ DOMAIN after.weeks[wk] = (DOMAIN before.weeks[wk]) \ {uid}
                 /\ \A m \in DOMAIN after.weeks[wk] : after.weeks[wk][m] = before.weeks[wk][m]
                 /\ \A k \in (DOMAIN before.weeks) \ {wk} : after.weeks[k] = before.weeks[k]
                 /\ after.names = before.names
                 /\ after.group_chats = before.group_chats
            ELSE /\ r.reply.kind = "no_records"
                 /\ r.file = file

\* C9 witness: a member without an entry, in a week whose record exists, has
\* just been told that there are no records.
C9_Witness ==
    /\ last = Answer("clear", "no_records")
    /\ current_week_key(now) \in DOMAIN Store.weeks

\* C10: the marker of format_week, the listing of problem_days_text and the
\* day lists of friday_nag and midweek_lookahead all count, for a weekday, the
\* members whose days contain it, flag the day iff that count is below
\* MIN_PEOPLE, report MIN_PEOPLE - count as the shortfall, and so agree on the
\* deficit days of a week.
C10_DeficitsAgree ==
    LET NamesOf(days) == {DAYS_RU[d + 1] : d \in days}
        data == Store
        cwk == current_week_key(now)
        nwk == next_week_key(now)
        this_deficit == Deficit(data, cwk)
        next_deficit == Deficit(data, nwk)
    IN  /\ \A wk \in {cwk, nwk} \cup DOMAIN data.weeks :
              LET lines == format_week(data, wk, "").lines
                  text == problem_days_text(data, wk)
                  count == [d \in 0..4 |-> Cardinality(Attending(data, wk, d))]
                  deficit == {d \in 0..4 : count[d] < MIN_PEOPLE}
              IN  /\ \A d \in 0..4 :
                        /\ lines[d + 1].count = count[d]
                        /\ lines[d + 1].marker = "red" <=> d \in deficit
                        /\ lines[d + 1].day_name = DAYS_RU[d + 1]
                  /\ text.all_closed <=> deficit = {}
                  /\ Len(text.problems) = Cardinality(deficit)
                  /\ {<<p.day_name, p.need>> : p \in SeqRange(text.problems)}
                        = {<<DAYS_RU[d + 1], MIN_PEOPLE - count[d]>> : d \in deficit}
        /\ LET empty == friday_nag_empty(data, now)
               next == midweek_problems_next(data, now)
               this == midweek_problems_this(data, now)
           IN  /\ SeqRange(empty) = NamesOf(next_deficit)
               /\ Len(empty) = Cardinality(next_deficit)
               /\ next = empty
               /\ SeqRange(this) = NamesOf(this_deficit \cap {3, 4})
               /\ Len(this) = Cardinality(this_deficit \cap {3, 4})
        /\ LET alert == morning_reminder(file, now)
               today_idx == weekday(now)
           IN  IF today_idx \in this_deficit
               THEN /\ Len(alert) = 1
                    /\ alert[1].need = MIN_PEOPLE - Cardinality(Attending(data, cwk, today_idx))
               ELSE alert = <<>>

\* C10 witness: a week has a day with MIN_PEOPLE members and a day in deficit.
C10_Witness ==
    \E wk \in DOMAIN Store.weeks :
        /\ \E d \in 0..4 : Cardinality(Attending(Store, wk, d)) = MIN_PEOPLE
        /\ Deficit(Store, wk) # {}

\* the store after every member has signed up for `days` of week wk
RECURSIVE SignUpAll(_, _, _, _, _)
SignUpAll(f, members, days, wk, today) ==
    IF members = {} THEN f
    ELSE LET m == CHOOSE x \in members : TRUE
         IN  SignUpAll(set_days_for_user(f, m.uid, m.name, days, wk, today).file,
                       members \ {m}, days, wk, today)

\* the stores a notifier is tried on: the current one, and the current one
\* after all members have signed up for some days of week wk
AfterSignUps(wk) ==
    {file} \cup {SignUpAll(file, MemberInputs, days, wk, now) :
                    days \in DayListInputs \cup {Range5}}

\* the day names of a set of day indices, in the order of the week
NamesInOrder(days) == DayNames(SelectSeq(Range5, LAMBDA d : d \in days))

\* C11: on a Friday friday_nag alerts iff some weekday of the next week is in
\* deficit, the alert lists exactly the deficit days of the next week and goes
\* to every registered chat; so a day whose count sign-ups have brought to
\* MIN_PEOPLE is not listed, and with all five days satisfied nothing is sent.
C11_FridayNagListsDeficit ==
    weekday(now) = 4 =>
        LET nwk == next_week_key(now)
        IN  \A f \in AfterSignUps(nwk) :
                LET data == load_data(f)
                    deficit == Deficit(data, nwk)
                    alert == friday_nag(f, now)
                    sent == Broadcast(f, alert, {})
                IN  IF deficit = {}
                    THEN alert = <<>> /\ sent = <<>>
                    ELSE /\ Len(alert) = 1
                         /\ alert[1].more = NamesInOrder(deficit)
                         /\ \A d \in 0..4 :
                               Cardinality(Attending(data, nwk, d)) >= MIN_PEOPLE
                                   => DAYS_RU[d + 1] \notin SeqRange(alert[1].more)
                         /\ [i \in 1..Len(sent) |-> sent[i].chat_id] = data.group_chats

\* C11 witness: on a Friday, sign-ups have brought a day of the next week to
\* MIN_PEOPLE and the alert to the registered chat lists the other days.
C11_Witness ==
    /\ weekday(now) = 4
    /\ Store.group_chats # <<>>
    /\ friday_nag(file, now) # <<>>
    /\ \E d \in 0..4 :
          /\ Cardinality(Attending(Store, next_week_key(now), d)) = MIN_PEOPLE
          /\ DAYS_RU[d + 1] \notin SeqRange(friday_nag(file, now)[1].more)

\* C12: on a Wednesday midweek_lookahead sends a combined alert iff Thursday
\* or Friday of the current week or some day of the next week is in deficit,
\* and nothing iff the rest of this week and the whole next week are satisfied.
C12_MidweekAlertsOnEitherWeek ==
    weekday(now) = 2 =>
        LET cwk == current_week_key(now)
            nwk == next_week_key(now)
        IN  \A f1 \in AfterSignUps(nwk) :
              \A f \in {f1, SignUpAll(f1, MemberInputs, Range5, cwk, now)} :
                LET data == load_data(f)
                    rest == Deficit(data, cwk) \cap {3, 4}
                    next == Deficit(data, nwk)
                    alert == midweek_lookahead(f, now)
                    sent == Broadcast(f, alert, {})
                IN  IF rest = {} /\ next = {}
                    THEN alert = <<>> /\ sent = <<>>
                    ELSE /\ Len(alert) = 1
                         /\ alert[1].days = NamesInOrder(rest)
                         /\ alert[1].more = NamesInOrder(next)
                         /\ [i \in 1..Len(sent) |-> sent[i].chat_id] = data.group_chats

\* C12 witness: on a Wednesday the rest of the week is in deficit, a member
\* has signed up, and the combined alert goes to the registered chat.
C12_Witness ==
    /\ weekday(now) = 2
    /\ Store.group_chats # <<>>
    /\ midweek_lookahead(file, now) # <<>>
    /\ midweek_lookahead(file, now)[1].days # <<>>
    /\ current_week_key(now) \in DOMAIN Store.weeks

\* the alerts the three notifiers decide on now
JobAlerts(f) == {morning_reminder(f, now), midweek_lookahead(f, now), friday_nag(f, now)}

\* the chats of a broadcast, in the order of the attempts
Attempts(sent) == [i \in 1..Len(sent) |-> sent[i].chat_id]

\* C13: when a notifier decides to alert, delivery is attempted exactly once
\* to every registered chat, in the order of the registry, whatever subset of
\* the deliveries fails: a failure neither ends the loop nor is retried, and
\* the broadcast writes nothing to the store.
C13_BestEffortBroadcast ==
    \A alert \in JobAlerts(file) : \A fails \in SUBSET SeqRange(Store.group_chats) :
        LET sent == Broadcast(file, alert, fails)
        IN  IF alert = <<>> THEN sent = <<>>
            ELSE /\ Attempts(sent) = Store.group_chats
                 /\ \A chat_id \in SeqRange(Store.group_chats) :
                       Cardinality({i \in 1..Len(sent) : sent[i].chat_id = chat_id}) = 1
                 /\ \A i \in 1..Len(sent) :
                       /\ sent[i].delivered <=> sent[i].chat_id \notin fails
                       /\ sent[i].text = alert[1]

\* C13 witness: two chats are registered and a notifier alerts, so that the
\* delivery to the first can fail before the second is tried.
C13_Witness ==
    /\ Len(Store.group_chats) = 2
    /\ \E alert \in JobAlerts(file) : alert # <<>>

C20_RegisterIdempotent ==
    LET chats == Store.group_chats
    IN  /\ \A i, j \in 1..Len(chats) : chats[i] = chats[j] => i = j
        /\ \A chat \in AllGroupChats :
              LET once == register_group_chat(file, chat.id)
              IN  /\ InList(chat.id, chats) => once = file
                  /\ register_group_chat(once, chat.id) = once
                  /\ InList(chat.id, load_data(once).group_chats)
                  /\ \A alert \in JobAlerts(once) :
                        LET sent == Broadcast(once, alert, {})
                        IN  \A i, j \in 1..Len(sent) :
                               sent[i].chat_id = sent[j].chat_id => i = j

\* C20 witness: a registered group has sent a second update and the registry
\* still holds it once.
C20_Witness ==
    /\ nops >= 2
    /\ Len(Store.group_chats) = 1
    /\ last.op = "week"

\* the timestamps the week arithmetic is tried on
TimestampInputs == (StartDay - 40)..(StartDay + 100)

\* week_key and monday_of on one timestamp
RoundTripAt(t) ==
    LET k == week_key(t)
        m == monday_of(k)
    IN  /\ week_key(m) = k
        /\ k = strftime_Ymd(m)
        /\ weekday(m) = 0
        /\ m <= t /\ t - m < 7

RoundTripOnInputs ==
    /\ \A t \in TimestampInputs : RoundTripAt(t)
    /\ \A m \in {t \in TimestampInputs : weekday(t) = 0} :
          week_key(monday_of(strftime_Ymd(m))) = strftime_Ymd(m)

\* C14: week_key(monday_of(week_key(t))) = week_key(t) for every timestamp t,
\* week_key(monday_of(k)) = k for every week key k (the date of a Monday), and
\* week_key(t) is the date of the Monday on or before t.
C14_WeekKeyRoundTrip ==
    /\ RoundTripOnInputs
    /\ RoundTripAt(now) /\ RoundTripAt(now + 7)
    /\ \A k \in DOMAIN Store.weeks :
          /\ week_key(monday_of(k)) = k
          /\ weekday(monday_of(k)) = 0

\* C14 witness: on a Sunday the store holds the record of the current week,
\* whose key is the date of the Monday six days before.
C14_Witness ==
    /\ weekday(now) = 6
    /\ current_week_key(now) \in DOMAIN Store.weeks
    /\ monday_of(current_week_key(now)) = now - 6

\* replies of the language model with a malformed directive (no this/next
\* segment, trailing garbage) or with two directives
MalformedReplies ==
    { <<"A", "C", "T", "I", "O", "N", ":", "C", "L", "E", "A", "R">>,
      <<"o", "k", "\n", "A", "C", "T", "I", "O", "N", ":", "S", "E", "T", ":", "0", ",", "2">>,
      <<"A", "C", "T", "I", "O", "N", ":", "S", "E", "T", ":", "4", ",", "x", ":", "n", "e", "x", "t">>,
      <<"A", "C", "T", "I", "O", "N", ":", "S", "E", "T", ":", "0", ":", "t", "h", "i", "s", "\n", "A", "C", "T", "I", "O", "N", ":", "C", "L", "E", "A", "R", ":", "n", "e", "x", "t">> }

\* C15 (as claimed): a reply with a malformed directive or with more than one
\* directive yields no proposed action: parse_action returns none for it and
\* handle_text shows no confirmation prompt.
C15_MalformedDirectiveIgnored ==
    \A r \in MalformedReplies :
        /\ parse_action(r, now).none
        /\ \A user \in Users : \A chat \in ChatsOf(user) : \A msg \in Messages :
              handle_text(file, user, chat, msg, r, now).prompt = <<>>

\* a day token that is not a key of DAYS_MAP once lowered and stripped
Unrecognized(a) == StripChars(LowerStr(a), {",", "."}) \notin DOMAIN DAYS_MAP

\* C17 (as claimed): /set and /setnext without arguments or with an
\* unrecognized day token, alone or among recognized ones, answer with
\* guidance and change no week record and no member-directory entry.
C17_BadSetChangesNothing ==
    \A user \in Users : \A chat \in ChatsOf(user) : \A args \in ArgInputs :
        (args = <<>> \/ \E i \in 1..Len(args) : Unrecognized(args[i]))
            => \A r \in {cmd_set(file, user, chat, args, now),
                         cmd_setnext(file, user, chat, args, now)} :
                  /\ r.reply \in {"give_days", "days_not_understood"}
                  /\ load_data(r.file).weeks = Store.weeks
                  /\ load_data(r.file).names = Store.names

\* a stored day list: indices of working days, none twice
ValidDays(days) ==
    /\ \A i \in 1..Len(days) : days[i] \in 0..4
    /\ \A i, j \in 1..Len(days) : days[i] = days[j] => i = j

\* directives that repeat a day index or name one outside 0..4
RepeatedDirectiveInputs ==
    { <<"A", "C", "T", "I", "O", "N", ":", "S", "E", "T", ":", "2", ",", ",", "2", ",", "0", ":", "n", "e", "x", "t">>,
      <<"A", "C", "T", "I", "O", "N", ":", "S", "E", "T", ":", "7", ",", "3", ":", "t", "h", "i", "s">>,
      <<"A", "C", "T", "I", "O", "N", ":", "S", "E", "T", ":", "4", ",", "4">> }

\* what the two parsers return for every input, and what the confirm button
\* of a parsed directive stores
ParsedDaysValid ==
    /\ \A args \in ArgInputs : ValidDays(parse_days(args).days)
    /\ \A r \in LLMReplies \cup MalformedReplies \cup RepeatedDirectiveInputs :
          LET a == parse_action(r, StartDay)
          IN  /\ ValidDays(a.days)
              /\ (~a.none /\ a.type = "SET")
                    => \A user \in Users :
                          LET uid == IntToStr(user.id)
                              c == handle_callback(NoFile, user, ConfirmPayload(a, uid), StartDay)
                          IN  load_data(c.file).weeks[a.week][uid] = a.days

\* C19: in every reachable state every stored day index is in 0..4 and no day
\* list holds an index twice, whatever /set commands, proposals,
\* confirmations, clears and sweeps have run; the day lists the parsers and
\* the bot's own confirmation payloads produce are of that kind.
C19_DayIndicesValid ==
    /\ \A wk \in DOMAIN Store.weeks : \A m \in DOMAIN Store.weeks[wk] :
          ValidDays(Store.weeks[wk][m])
    /\ ParsedDaysValid

\* C19 witness: while a proposed SET awaits its confirmation, /set with two
\* tokens for the same day has stored that day once.
C19_Witness ==
    /\ last = Answer("set", "set")
    /\ \E wk \in DOMAIN Store.weeks : \E m \in DOMAIN Store.weeks[wk] :
          Store.weeks[wk][m] = <<4>>
    /\ \E i \in 1..Len(prompts) :
          /\ prompts[i].state = "pending"
          /\ prompts[i].action.type = "SET"

\* C18: under every interleaving of the handlers at their await points a
\* committed update is never lost: a sign-up disappears or changes only in a
\* step of set_days, clear_days or the sweep, a registered chat and a
\* directory entry never disappear, and the continuation of a handler that
\* loaded the store before its await writes nothing back.
C18_NoLostUpdate ==
    [][LET before == load_data(file)
           after == load_data(file')
       IN  /\ (\E wk \in DOMAIN before.weeks : \E m \in DOMAIN before.weeks[wk] :
                  ~(/\ wk \in DOMAIN after.weeks
                    /\ m \in DOMAIN after.weeks[wk]
                    /\ after.weeks[wk][m] = before.weeks[wk][m]))
                 => (CleanupOldWeeks \/ GroupSet \/ CmdClear \/ HandleCallback)
           /\ SeqRange(before.group_chats) \subseteq SeqRange(after.group_chats)
           /\ DOMAIN before.names \subseteq DOMAIN after.names
           /\ Len(inflight') < Len(inflight) => after = before]_vars

\* C18 witness: a handle_text call is suspended at its await with data that a
\* sign-up committed in the meantime has made stale.
C18_Witness ==
    \E k \in 1..Len(inflight) :
        /\ inflight[k].data.weeks # Store.weeks
        /\ last = Answer("set", "set")

\* the handlers main registers for commands and free text, each applied to
\* one update of `user` in `chat`: the stores they leave
AfterInteraction(f, user, chat, today) ==
    {cmd_start(f, chat).file, cmd_week(f, chat).file,
     cmd_clear(f, user, today).file, cmd_clearnext(f, user, today).file,
     cmd_next(f).file, cmd_status(f).file}
    \cup {cmd_set(f, user, chat, args, today).file : args \in ArgInputs}
    \cup {cmd_setnext(f, user, chat, args, today).file : args \in ArgInputs}
    \cup {handle_text(f, user, chat, msg, r, today).file :
              msg \in Messages, r \in LLMReplies}

\* C21 (as claimed): after any command or free-text message from a non-private
\* chat that chat is in the broadcast registry, and no command or free-text
\* message from a private chat adds that chat to the registry.
C21_AutoRegistration ==
    \A user \in Users : \A chat \in {PrivateChat(user)} \cup AllGroupChats :
        \A after \in AfterInteraction(file, user, chat, now) :
            IF chat.type # "private"
            THEN InList(chat.id, load_data(after).group_chats)
            ELSE ~InList(chat.id, load_data(after).group_chats)

\* the week records under the commands of the next week, the confirmation
\* flow and the sweep
PrivateSetNext ==
    \E user \in Users : \E args \in ArgInputs :
        Reply("setnext", cmd_setnext(file, user, PrivateChat(user), args, now))

NextWeeks ==
    \/ Tick
    \/ GroupText
    \/ HandleCallback
    \/ PrivateSetNext
    \/ CmdClearNext
    \/ CleanupOldWeeks

SpecWeeks == Init /\ [][NextWeeks]_vars

\* a key that is the %Y-%m-%d date of a Monday
IsMondayKey(k) ==
    /\ k \in DOMAIN DayOfYmd
    /\ weekday(monday_of(k)) = 0
    /\ strftime_Ymd(monday_of(k)) = k

\* the keys under which `after` holds a record that `before` does not hold
WrittenKeys(before, after) ==
    {k \in DOMAIN after.weeks :
        k \notin DOMAIN before.weeks \/ after.weeks[k] # before.weeks[k]}

\* the cutoff of the sweep
SweepCutoff == strftime_Ymd(now - 7 * RetentionWeeks)

\* the pending prompts that propose a SET for a week older than the cutoff
StaleProposals ==
    {i \in 1..Len(prompts) :
        /\ prompts[i].state = "pending"
        /\ prompts[i].action.type = "SET"
        /\ StrLess(prompts[i].action.week, SweepCutoff)}

\* what /set and /clear write when they arrive now: records of the current
\* week only
ThisWeekCommands ==
    nops < MaxOps =>
    LET before == Store
        Only(after) ==
            /\ WrittenKeys(before, after) \subseteq {current_week_key(now)}
            /\ DOMAIN before.weeks \subseteq DOMAIN after.weeks
    IN  \A user \in Users :
            /\ Only(load_data(cmd_clear(file, user, now).file))
            /\ \A args \in ArgInputs :
                  Only(load_data(cmd_set(file, user, PrivateChat(user), args, now).file))

\* every stored key and every proposed key is the date of a Monday, a sweep
\* leaves no key older than its cutoff, and a confirmation of a stale
\* proposal pressed after that sweep stores the stale week again
MondayKeys ==
    /\ ThisWeekCommands
    /\ \A k \in DOMAIN Store.weeks : IsMondayKey(k)
    /\ \A i \in 1..Len(prompts) :
          /\ IsMondayKey(prompts[i].action.week)
          /\ monday_of(prompts[i].action.week) <= monday_of(next_week_key(now))
          /\ Split(prompts[i].cb, ":")[Len(Split(prompts[i].cb, ":"))]
                 = prompts[i].action.week
    /\ LET swept == cleanup_old_weeks(file, now)
       IN  /\ \A k \in DOMAIN load_data(swept).weeks : ~StrLess(k, SweepCutoff)
           /\ \A i \in StaleProposals : \E user \in Users :
                 /\ user.id = prompts[i].owner
                 /\ prompts[i].action.week \in
                        DOMAIN load_data(handle_callback(swept, user, prompts[i].cb,
                                                         now).file).weeks

\* what a step may write and remove: a command writes under the current or
\* the next week key of the moment, a confirmation under the key of the prompt
\* it confirms, and only the sweep removes a key
WriteDiscipline ==
    LET before == load_data(file)
        after == load_data(file')
        written == WrittenKeys(before, after)
    IN  /\ written # {} =>
              /\ nops' = nops + 1
              /\ \/ /\ last'.op \in {"setnext", "clearnext"}
                    /\ written = {next_week_key(now)}
                 \/ /\ last'.op = "callback"
                    /\ \E i \in 1..Len(prompts) :
                          /\ prompts[i].state = "pending"
                          /\ prompts'[i].state = "done"
                          /\ written = {prompts[i].action.week}
        /\ DOMAIN before.weeks # DOMAIN after.weeks /\ written = {} =>
              /\ CleanupOldWeeks
              /\ DOMAIN after.weeks =
                     {k \in DOMAIN before.weeks : ~StrLess(k, SweepCutoff)}

\* C22: in every reachable state every key of the week-record mapping is the
\* date of a Monday; commands write only under current_week_key() or
\* next_week_key() of the moment of the command, confirmations only under the
\* key computed when the action was proposed, nothing else writes a week
\* record; a confirmation pressed after the sweep re-creates a week record
\* older than the retention cutoff, and only a sweep removes it.
C22_WeekKeysAreMondays == [](MondayKeys) /\ [][WriteDiscipline]_vars

\* C22 witness: on a day that is not a Monday the store holds a week record,
\* written by a confirmation, whose key is older than the cutoff of the sweep
\* and is neither the current nor the next week key.
C22_Witness ==
    /\ weekday(now) # 0
    /\ last = Answer("callback", "set")
    /\ \E k \in DOMAIN Store.weeks :
          /\ StrLess(k, SweepCutoff)
          /\ k \notin {current_week_key(now), next_week_key(now)}
          /\ \E i \in 1..Len(prompts) :
                prompts[i].state = "done" /\ prompts[i].action.week = k

====
